---- MODULE Spec2Model ----
(***************************************************************************)
(* Model of the two programs of the repository:                            *)
(*   A4/interval.cpp                 the IntervalBrancher and interval()   *)
(*   A4/MaximumDensityStillLife.cpp  the still-life script and its search  *)
(* Spec is the interval brancher driven by a depth-first search engine,     *)
(* SpecLife the branch-and-bound search of MaximumDensityStillLife.        *)
(***************************************************************************)
EXTENDS Integers, Sequences, FiniteSets, TLC

(***************************************************************************)
(* Bounds of the model.                                                    *)
(***************************************************************************)
NumVars == 2          \* number of views in the array x
MaxVal == 2           \* initial domains are intervals inside 0..MaxVal
MaxW == 2             \* widths are drawn from 0..MaxW
MaxCalls == 2         \* calls of choice() on one node
MaxJunk == 2          \* reads of an uninitialised split_point per search
MaxSize == 4          \* board sizes (os.size()) are drawn from 1..MaxSize
MaxDom == 10          \* one view alone: its domain is a subset of 0..MaxDom
MaxWidth == 4         \* one view alone: its width is drawn from -MaxWidth..MaxWidth

Idx == 0 .. (NumVars - 1)
Values == 0 .. MaxVal
Pairs == {pr \in Idx \X Idx : pr[1] < pr[2]}

\* The percentage p as an exact fraction <<numerator, denominator>>; all of
\* them are exactly representable as a double.
Fractions == {<<0, 1>>, <<1, 2>>, <<1, 1>>, <<3, 2>>}

\* What an uninitialised int may hold: below, inside and above every domain.
Garbage == (0 - 1) .. (MaxVal + 1)

Addr == 0 .. (NumVars * MaxVal + MaxJunk + 1)

SetMin(S) == CHOOSE m \in S : \A v \in S : m <= v
SetMax(S) == CHOOSE m \in S : \A v \in S : m >= v

(***************************************************************************)
(* Integer views (Gecode::Int::IntView) as the brancher uses them.         *)
(***************************************************************************)
min(d) == SetMin(d)
max(d) == SetMax(d)
assigned(d) == Cardinality(d) = 1
lq(d, n) == {v \in d : v <= n}
gr(d, n) == {v \in d : v > n}
me_failed(d) == d = {}

VARIABLES
  x,         \* domains of the views of the working space
  w,         \* address of the working space's width array
  p,         \* percentage for the obligatory part
  start,     \* cache of the first unassigned view
  failed,    \* the working space is failed
  posted,    \* number of branchers of the working space
  exc,       \* exception raised by interval()
  heap,      \* space-allocated memory: Addr -> [live, data]
  stack,     \* search engine: clones waiting for their next alternative
  pc,        \* position of the search engine
  c,         \* the Description returned by the last choice()
  a,         \* alternative to commit
  es,        \* ExecStatus returned by the last commit
  archive,   \* the Archive, a sequence of unsigned 32 bit words
  neq,       \* the other propagators of the space: pairs <<i, j>>, x[i] # x[j]
  njunk,     \* reads of an uninitialised split_point so far
  ncalls,    \* calls of choice() on the current node
  args,      \* the arguments w and p of the last call of interval()
  board,     \* still life: os.size()
  cells,     \* still life: domains of the cells of the working space
  trail,     \* still life: the decisions that lead to the working space
  best,      \* still life: the incumbent of the branch-and-bound engine
  q,         \* still life: the solution bab.next() returned last
  lpc        \* still life: position of main

ivars == <<x, w, p, start, failed, posted, exc, heap, stack, pc, c, a, es,
           archive, neq, njunk, ncalls, args>>
lvars == <<board, cells, trail, best, q, lpc>>
vars == <<ivars, lvars>>

NoChoice == [id |-> 0, alternatives |-> 0, pos |-> 0, alt |-> 0, split_point |-> 0]
NoArray == [i \in Idx |-> 0]
BrancherId == 1
NoArgs == [w |-> <<>>, p |-> <<0, 1>>]

(***************************************************************************)
(* Archive words: operator<< casts an int to unsigned int, operator>>      *)
(* casts back.  A word is kept as its two 16 bit halves.                   *)
(***************************************************************************)
ToUInt(v) == [hi |-> (v \div 65536) % 65536, lo |-> v % 65536]
ToInt(u) == (IF u.hi >= 32768 THEN u.hi - 65536 ELSE u.hi) * 65536 + u.lo

(***************************************************************************)
(* Space memory: home.alloc<int>(n) and the release on deletion.           *)
(***************************************************************************)
alloc(h) == SetMin({ad \in Addr : ~h[ad].live})
free(h, ad) == [h EXCEPT ![ad] = [live |-> FALSE, data |-> NoArray]]

(***************************************************************************)
(* IntervalBrancher::status                                                *)
(***************************************************************************)
size(arr) == Cardinality(DOMAIN arr)

\* the test of status() with <= in place of <
statusPred_lq(xx, ww, pp, i) ==
  /\ (min(xx[i]) + ww[i] - max(xx[i])) * pp[2] <= pp[1] * ww[i]
  /\ ~assigned(xx[i])

statusPred(xx, ww, pp, i) ==
  /\ (min(xx[i]) + ww[i] - max(xx[i])) * pp[2] < pp[1] * ww[i]
  /\ ~assigned(xx[i])

\* status with the scan begun one past the cursor
status_skip(xx, ww, pp, st) ==
  LET hits == {i \in (st + 1) .. (size(xx) - 1) : statusPred(xx, ww, pp, i)}
  IN  IF hits # {} THEN [ret |-> TRUE, start |-> SetMin(hits)]
                   ELSE [ret |-> FALSE, start |-> st]

status(xx, ww, pp, st) ==
  LET hits == {i \in st .. (size(xx) - 1) : statusPred(xx, ww, pp, i)}
  IN  IF hits # {} THEN [ret |-> TRUE, start |-> SetMin(hits)]
                   ELSE [ret |-> FALSE, start |-> st]

(***************************************************************************)
(* IntervalBrancher::choice.  The loop keeps the last value of the domain  *)
(* that satisfies the test; when none does, split_point is returned        *)
(* uninitialised.  The result is the set of Descriptions the call can      *)
(* return.                                                                 *)
(***************************************************************************)
\* the test of choice() with > in place of >=
choiceTest_strict(xx, ww, pp, st, k) ==
  (min(xx[st]) + ww[st] - k) * pp[2] > pp[1] * ww[st]

choiceTest(xx, ww, pp, st, k) ==
  (min(xx[st]) + ww[st] - k) * pp[2] >= pp[1] * ww[st]

Description(b, alts, pos, split) ==
  [id |-> b, alternatives |-> alts, pos |-> pos, alt |-> alts, split_point |-> split]

choiceSat(xx, ww, pp, st) == {k \in xx[st] : choiceTest(xx, ww, pp, st, k)}

\* choice with a loop that stops at the first value that passes the test
choice_first(xx, ww, pp, st) ==
  LET sat == choiceSat(xx, ww, pp, st)
      splits == IF sat # {} THEN {SetMin(sat)} ELSE Garbage
  IN  {Description(BrancherId, 2, st, s) : s \in splits}

choice(xx, ww, pp, st) ==
  LET sat == choiceSat(xx, ww, pp, st)
      splits == IF sat # {} THEN {SetMax(sat)} ELSE Garbage
  IN  {Description(BrancherId, 2, st, s) : s \in splits}

(***************************************************************************)
(* Description::archive and IntervalBrancher::choice(home, archive).       *)
(* Choice::archive writes the brancher id; the space reads it to find the  *)
(* brancher, whose choice(home, archive) then reads the words that follow. *)
(***************************************************************************)
archiveDescription(d) ==
  <<ToUInt(d.id), ToUInt(d.split_point), ToUInt(d.alt), ToUInt(d.pos)>>

\* choice(home, archive) reading the fields in the order pos, alt, split_point
choiceFromArchive_swapped(e) ==
  LET position == ToInt(e[1])
      alternatives == ToInt(e[2])
      split_point == ToInt(e[3])
  IN  Description(BrancherId, alternatives, position, split_point)

choiceFromArchive(e) ==
  LET split_point == ToInt(e[1])
      alternatives == ToInt(e[2])
      position == ToInt(e[3])
  IN  Description(BrancherId, alternatives, position, split_point)

(***************************************************************************)
(* IntervalBrancher::commit: the narrowed array and the ExecStatus.        *)
(***************************************************************************)
\* commit with gq in place of gr: x[pos] >= split_point
commit_gq(xx, d, alt) ==
  LET position == d.pos
      split_point == d.split_point
      nd == IF alt = 0 THEN lq(xx[position], split_point)
                       ELSE {v \in xx[position] : v >= split_point}
  IN  [x |-> [xx EXCEPT ![position] = nd],
       es |-> IF me_failed(nd) THEN "ES_FAILED" ELSE "ES_OK"]

\* commit that takes the bound from the node instead of the Description:
\* alternative 1 removes the current minimum
commit_fromNode(xx, d, alt) ==
  LET position == d.pos
      split_point == d.split_point
      nd == IF alt = 0 THEN lq(xx[position], split_point)
                       ELSE gr(xx[position], min(xx[position]))
  IN  [x |-> [xx EXCEPT ![position] = nd],
       es |-> IF me_failed(nd) THEN "ES_FAILED" ELSE "ES_OK"]

\* commit that does not test the result of gr
commit_unchecked(xx, d, alt) ==
  LET position == d.pos
      split_point == d.split_point
      nd == IF alt = 0 THEN lq(xx[position], split_point)
                       ELSE gr(xx[position], split_point)
  IN  [x |-> [xx EXCEPT ![position] = nd],
       es |-> IF alt = 0 /\ me_failed(nd) THEN "ES_FAILED" ELSE "ES_OK"]

commit(xx, d, alt) ==
  LET position == d.pos
      split_point == d.split_point
      nd == IF alt = 0 THEN lq(xx[position], split_point)
                       ELSE gr(xx[position], split_point)
  IN  [x |-> [xx EXCEPT ![position] = nd],
       es |-> IF me_failed(nd) THEN "ES_FAILED" ELSE "ES_OK"]

(***************************************************************************)
(* IntervalBrancher copy constructor: the clone gets its own width array.  *)
(***************************************************************************)
copyW(h, b_w) == [h EXCEPT ![alloc(h)] = [live |-> TRUE, data |-> h[b_w].data]]

\* IntervalBrancher::copy: the heap after the copy and the clone's array.
\* The first one is a copy that takes over the pointer w of the original.
copy_shared(h, b_w) == [heap |-> h, w |-> b_w]
copy(h, b_w) == [heap |-> copyW(h, b_w), w |-> alloc(h)]

(***************************************************************************)
(* The other propagators of the space, run to their fixpoint: for a pair   *)
(* <<i, j>> an assigned x[i] is removed from x[j] and the other way round. *)
(***************************************************************************)
neqStep(xx, prs) ==
  [i \in Idx |->
     xx[i] \ UNION {xx[j] : j \in {k \in Idx \ {i} :
                                     /\ (<<i, k>> \in prs \/ <<k, i>> \in prs)
                                     /\ assigned(xx[k])}}]

RECURSIVE propagate(_, _)
propagate(xx, prs) ==
  IF \E i \in Idx : xx[i] = {} THEN xx
  ELSE LET nx == neqStep(xx, prs)
       IN  IF nx = xx THEN xx ELSE propagate(nx, prs)

(***************************************************************************)
(* interval(home, x, w, p): posts the brancher on the variables of home,   *)
(* with w0 the IntArgs of widths and p0 the percentage.                    *)
(***************************************************************************)
Null == 0 - 1
NoBest == [has |-> FALSE, noOfLives |-> 0, sumSlices |-> 0]
NoSolution == [has |-> FALSE, no |-> 0, cells |-> <<>>, noOfLives |-> 0, sliceOfMDP |-> <<>>]
EmptyHeap == [ad \in Addr |-> [live |-> FALSE, data |-> NoArray]]
WidthArgs == UNION {[0 .. (n - 1) -> 0 .. MaxW] : n \in {NumVars - 1, NumVars, NumVars + 1}}

Init ==
  /\ x = [i \in Idx |-> Values]
  /\ neq \in SUBSET Pairs
  /\ failed \in BOOLEAN
  /\ w = Null
  /\ p = <<0, 1>>
  /\ start = 0
  /\ posted = 0
  /\ exc = "none"
  /\ heap = EmptyHeap
  /\ stack = <<>>
  /\ pc = "post"
  /\ c = NoChoice
  /\ a = 0
  /\ es = "ES_OK"
  /\ archive = <<>>
  /\ njunk = 0
  /\ ncalls = 0
  /\ args = NoArgs
  /\ board = 0
  /\ cells = <<>>
  /\ trail = <<>>
  /\ best = NoBest
  /\ q = NoSolution
  /\ lpc = "off"

\* interval() without the test of home.failed()
interval_noFailedTest ==
  /\ pc = "post"
  /\ \E w0 \in WidthArgs, p0 \in Fractions :
       /\ args' = [w |-> w0, p |-> p0]
       /\ IF size(x) # size(w0)
          THEN /\ exc' = "ArgumentSizeMismatch"
               /\ pc' = "done"
               /\ UNCHANGED <<w, p, start, posted, heap>>
          ELSE /\ w' = alloc(heap)
               /\ heap' = [heap EXCEPT ![alloc(heap)] = [live |-> TRUE, data |-> w0]]
               /\ p' = p0
               /\ start' = 0
               /\ posted' = posted + 1
               /\ pc' = "run"
               /\ UNCHANGED exc
  /\ UNCHANGED <<x, failed, stack, c, a, es, archive, neq, njunk, ncalls>>
  /\ UNCHANGED lvars

interval ==
  /\ pc = "post"
  /\ \E w0 \in WidthArgs, p0 \in Fractions :
       /\ args' = [w |-> w0, p |-> p0]
       /\ IF size(x) # size(w0)
          THEN /\ exc' = "ArgumentSizeMismatch"
               /\ pc' = "done"
               /\ UNCHANGED <<w, p, start, posted, heap>>
          ELSE IF failed
          THEN /\ pc' = "run"
               /\ UNCHANGED <<w, p, start, posted, heap, exc>>
          ELSE /\ w' = alloc(heap)
               /\ heap' = [heap EXCEPT ![alloc(heap)] = [live |-> TRUE, data |-> w0]]
               /\ p' = p0
               /\ start' = 0
               /\ posted' = posted + 1
               /\ pc' = "run"
               /\ UNCHANGED exc
  /\ UNCHANGED <<x, failed, stack, c, a, es, archive, neq, njunk, ncalls>>
  /\ UNCHANGED lvars

(***************************************************************************)
(* The search engine (depth-first, one clone per choice).                  *)
(***************************************************************************)
\* Space::status: propagation to the fixpoint, then the brancher's status.
\* A failed space has none.
Status ==
  /\ pc = "run"
  /\ LET nx == IF failed THEN x ELSE propagate(x, neq)
         dead == failed \/ \E i \in Idx : nx[i] = {}
     IN  /\ x' = nx
         /\ failed' = dead
         /\ IF dead \/ posted = 0
            THEN /\ pc' = IF dead THEN "backtrack" ELSE "solution"
                 /\ UNCHANGED start
            ELSE LET r == status(nx, heap[w].data, p, start)
                 IN  /\ start' = r.start
                     /\ pc' = IF r.ret THEN "choice" ELSE "solution"
  /\ ncalls' = 0
  /\ UNCHANGED <<w, p, posted, exc, heap, stack, c, a, es, archive, neq, njunk>>
  /\ UNCHANGED args
  /\ UNCHANGED lvars

\* Whether choice() reads split_point without having written it.
readsJunk == choiceSat(x, heap[w].data, p, start) = {}

Choice ==
  /\ pc = "choice"
  /\ readsJunk => njunk < MaxJunk
  /\ \E d \in choice(x, heap[w].data, p, start) : c' = d
  /\ njunk' = IF readsJunk THEN njunk + 1 ELSE njunk
  /\ ncalls' = 1
  /\ pc' = "branch"
  /\ UNCHANGED <<x, w, p, start, failed, posted, exc, heap, stack, a, es, archive, neq>>
  /\ UNCHANGED args
  /\ UNCHANGED lvars

\* choice() is called once more on the same node.
ChoiceAgain ==
  /\ pc = "branch"
  /\ ncalls < MaxCalls
  /\ readsJunk => njunk < MaxJunk
  /\ \E d \in choice(x, heap[w].data, p, start) : c' = d
  /\ njunk' = IF readsJunk THEN njunk + 1 ELSE njunk
  /\ ncalls' = ncalls + 1
  /\ UNCHANGED <<x, w, p, start, failed, posted, exc, heap, stack, pc, a, es, archive, neq>>
  /\ UNCHANGED args
  /\ UNCHANGED lvars

\* The choice is written to an archive ...
Archive ==
  /\ pc = "branch"
  /\ archive' = archiveDescription(c)
  /\ pc' = "archived"
  /\ UNCHANGED <<x, w, p, start, failed, posted, exc, heap, stack, c, a, es, neq, njunk,
                 ncalls>>
  /\ UNCHANGED args
  /\ UNCHANGED lvars

\* ... and rebuilt from it.
Replay ==
  /\ pc = "archived"
  /\ ToInt(Head(archive)) = BrancherId
  /\ c' = choiceFromArchive(Tail(archive))
  /\ archive' = <<>>
  /\ pc' = "replayed"
  /\ UNCHANGED <<x, w, p, start, failed, posted, exc, heap, stack, a, es, neq, njunk,
                 ncalls>>
  /\ UNCHANGED args
  /\ UNCHANGED lvars

\* The node is cloned for the remaining alternatives; alternative 0 is next.
Clone ==
  /\ pc \in {"branch", "replayed"}
  /\ heap' = copy(heap, w).heap
  /\ stack' = Append(stack, [x |-> x, w |-> copy(heap, w).w, p |-> p, start |-> start,
                             c |-> c, alt |-> 1])
  /\ a' = 0
  /\ ncalls' = 0
  /\ pc' = "commit"
  /\ UNCHANGED <<x, w, p, start, failed, posted, exc, c, es, archive, neq, njunk>>
  /\ UNCHANGED args
  /\ UNCHANGED lvars

Commit ==
  /\ pc = "commit"
  /\ LET r == commit(x, c, a)
     IN  /\ x' = r.x
         /\ es' = r.es
         /\ failed' = (r.es = "ES_FAILED")
  /\ pc' = "committed"
  /\ UNCHANGED <<w, p, start, posted, exc, heap, stack, c, a, archive, neq, njunk, ncalls>>
  /\ UNCHANGED args
  /\ UNCHANGED lvars

\* The same commit is replayed on the node it has just succeeded on.
Recommit ==
  /\ pc = "committed"
  /\ es = "ES_OK"
  /\ LET r == commit(x, c, a)
     IN  /\ x' = r.x
         /\ es' = r.es
         /\ failed' = (r.es = "ES_FAILED")
  /\ pc' = "recommitted"
  /\ UNCHANGED <<w, p, start, posted, exc, heap, stack, c, a, archive, neq, njunk, ncalls>>
  /\ UNCHANGED args
  /\ UNCHANGED lvars

Resume ==
  /\ pc \in {"committed", "recommitted"}
  /\ pc' = "run"
  /\ UNCHANGED <<x, w, p, start, failed, posted, exc, heap, stack, c, a, es, archive,
                 neq, njunk, ncalls>>
  /\ UNCHANGED args
  /\ UNCHANGED lvars

\* A node without undecided work is a solution; the search goes on.
Solution ==
  /\ pc = "solution"
  /\ pc' = "backtrack"
  /\ UNCHANGED <<x, w, p, start, failed, posted, exc, heap, stack, c, a, es, archive,
                 neq, njunk, ncalls>>
  /\ UNCHANGED args
  /\ UNCHANGED lvars

\* The working space is deleted; the newest clone takes its place.
Backtrack ==
  /\ pc = "backtrack"
  /\ LET h == IF w = Null THEN heap ELSE free(heap, w)
     IN  IF stack = <<>>
         THEN /\ pc' = "done"
              /\ heap' = h
              /\ w' = Null
              /\ UNCHANGED <<x, p, start, failed, stack, c, a>>
         ELSE LET e == stack[Len(stack)]
                  last == e.alt + 1 >= e.c.alternatives
              IN  /\ x' = e.x
                  /\ p' = e.p
                  /\ start' = e.start
                  /\ failed' = FALSE
                  /\ c' = e.c
                  /\ a' = e.alt
                  /\ pc' = "commit"
                  /\ IF last
                     THEN /\ w' = e.w
                          /\ heap' = h
                          /\ stack' = SubSeq(stack, 1, Len(stack) - 1)
                     ELSE /\ w' = copy(h, e.w).w
                          /\ heap' = copy(h, e.w).heap
                          /\ stack' = [stack EXCEPT ![Len(stack)].alt = e.alt + 1]
  /\ UNCHANGED <<posted, exc, es, archive, neq, njunk, ncalls>>
  /\ UNCHANGED args
  /\ UNCHANGED lvars

Next ==
  \/ interval
  \/ Status
  \/ Choice
  \/ ChoiceAgain
  \/ Archive
  \/ Replay
  \/ Clone
  \/ Commit
  \/ Recommit
  \/ Resume
  \/ Solution
  \/ Backtrack

Spec == Init /\ [][Next]_vars

(***************************************************************************)
(* The search alone, on a space whose only brancher is the                 *)
(* IntervalBrancher and that has no other propagator: the space as         *)
(* interval() leaves it for widths w >= 0 and a percentage 0 <= p <= 1.    *)
(* The engine runs until its stack is empty: it always takes its next step.*)
(***************************************************************************)
InitSearch ==
  /\ x = [i \in Idx |-> Values]
  /\ neq = {}
  /\ failed = FALSE
  /\ \E w0 \in [Idx -> 0 .. MaxW], p0 \in {f \in Fractions : 0 <= f[1] /\ f[1] <= f[2]} :
       /\ heap = [EmptyHeap EXCEPT ![alloc(EmptyHeap)] = [live |-> TRUE, data |-> w0]]
       /\ p = p0
       /\ args = [w |-> w0, p |-> p0]
  /\ w = alloc(EmptyHeap)
  /\ start = 0
  /\ posted = 1
  /\ exc = "none"
  /\ stack = <<>>
  /\ pc = "run"
  /\ c = NoChoice
  /\ a = 0
  /\ es = "ES_OK"
  /\ archive = <<>>
  /\ njunk = 0
  /\ ncalls = 0
  /\ board = 0
  /\ cells = <<>>
  /\ trail = <<>>
  /\ best = NoBest
  /\ q = NoSolution
  /\ lpc = "off"

NextSearch ==
  \/ Status
  \/ Choice
  \/ Clone
  \/ Commit
  \/ Resume
  \/ Solution
  \/ Backtrack

SpecFair == InitSearch /\ [][NextSearch]_vars /\ WF_vars(NextSearch)

(***************************************************************************)
(* The brancher on an array of one view: status(), choice() and commit()   *)
(* applied to every domain inside 0..MaxDom, every width in                *)
(* -MaxWidth..MaxWidth (interval() accepts any IntArgs) and every          *)
(* percentage, one alternative after the other.                            *)
(***************************************************************************)
InitUnit ==
  /\ \E d \in SUBSET (0 .. MaxDom) :
       /\ d # {}
       /\ x = [i \in 0 .. 0 |-> d]
  /\ \E wd \in (0 - MaxWidth) .. MaxWidth :
       heap = [EmptyHeap EXCEPT ![0] = [live |-> TRUE, data |-> [i \in 0 .. 0 |-> wd]]]
  /\ w = 0
  /\ p \in Fractions
  /\ args = [w |-> heap[0].data, p |-> p]
  /\ start = 0
  /\ posted = 1
  /\ failed = FALSE
  /\ neq = {}
  /\ exc = "none"
  /\ stack = <<>>
  /\ pc = "status"
  /\ c = NoChoice
  /\ a = 0
  /\ es = "ES_OK"
  /\ archive = <<>>
  /\ njunk = 0
  /\ ncalls = 0
  /\ board = 0
  /\ cells = <<>>
  /\ trail = <<>>
  /\ best = NoBest
  /\ q = NoSolution
  /\ lpc = "off"

UnitStatus ==
  /\ pc = "status"
  /\ LET r == status(x, heap[w].data, p, start)
     IN  /\ start' = r.start
         /\ pc' = IF r.ret THEN "choice1" ELSE "done"
  /\ UNCHANGED <<x, w, p, failed, posted, exc, heap, stack, c, a, es, archive,
                 neq, njunk, ncalls, args>>
  /\ UNCHANGED lvars

UnitChoice ==
  /\ pc = "choice1"
  /\ c' \in choice(x, heap[w].data, p, start)
  /\ pc' = "commit1"
  /\ UNCHANGED <<x, w, p, start, failed, posted, exc, heap, stack, a, es, archive,
                 neq, njunk, ncalls, args>>
  /\ UNCHANGED lvars

UnitCommit ==
  /\ pc = "commit1"
  /\ \E alt \in 0 .. (c.alternatives - 1) :
       LET r == commit(x, c, alt)
       IN  /\ a' = alt
           /\ x' = r.x
           /\ es' = r.es
           /\ failed' = (r.es = "ES_FAILED")
           /\ pc' = IF r.es = "ES_FAILED" THEN "done" ELSE "status"
  /\ UNCHANGED <<w, p, start, posted, exc, heap, stack, c, archive, neq, njunk,
                 ncalls, args>>
  /\ UNCHANGED lvars

NextUnit == UnitStatus \/ UnitChoice \/ UnitCommit

SpecUnit == InitUnit /\ [][NextUnit]_vars

(***************************************************************************)
(* MaximumDensityStillLife: the board.  n is os.size().                    *)
(***************************************************************************)
board_size(n) == n + 4
CellIdx(n) == 0 .. (board_size(n) * board_size(n) - 1)
Interior(n) == 2 .. (board_size(n) - 3)

\* Matrix<BoolVarArgs> matrix(cells, board_size, board_size): matrix(col, row)
matrix(n, col, row) == row * board_size(n) + col

\* matrix.slice(fc, tc, fr, tr): the columns fc .. tc-1 of the rows fr .. tr-1
slice(n, fc, tc, fr, tr) ==
  {matrix(n, cc, rr) : cc \in fc .. (tc - 1), rr \in fr .. (tr - 1)}

getNeighbours(n, col, row) ==
  {matrix(n, col - 1, row - 1), matrix(n, col, row - 1), matrix(n, col + 1, row - 1),
   matrix(n, col - 1, row), matrix(n, col + 1, row),
   matrix(n, col - 1, row + 1), matrix(n, col, row + 1), matrix(n, col + 1, row + 1)}

\* Bounds of the sum of the Boolean variables S under the domains cd.
lo(cd, S) == Cardinality({i \in S : cd[i] = {1}})
hi(cd, S) == Cardinality({i \in S : 1 \in cd[i]})

RECURSIVE SeqSum(_)
SeqSum(sq) == IF sq = <<>> THEN 0 ELSE sq[1] + SeqSum(Tail(sq))

(***************************************************************************)
(* The constraints the constructor posts.  Each is given as the test the   *)
(* propagation makes on the domains cd: can it still be satisfied within   *)
(* the bounds of its variables.  On an assignment it is the constraint.    *)
(***************************************************************************)
\* the border of size two is empty: four linear(..., IRT_EQ, 0)
borderSlices(n) ==
  {slice(n, 0, 2, 0, board_size(n)),
   slice(n, board_size(n) - 2, board_size(n), 0, board_size(n)),
   slice(n, 2, board_size(n) - 2, 0, 2),
   slice(n, 2, board_size(n) - 2, board_size(n) - 2, board_size(n))}

borderEmpty(n, cd) == \A S \in borderSlices(n) : lo(cd, S) = 0

\* the still life constraints of cell (col, row): two_neighbours and
\* three_neighbours reify the sum of the neighbours, still_live is their
\* disjunction, the cell implies still_live and a dead cell implies
\* not three_neighbours
\* the still life constraints without cell >> still_live
stillLife_noSurvival(n, cd, col, row) ==
  LET neighbours == getNeighbours(n, col, row)
      l == lo(cd, neighbours)
      h == hi(cd, neighbours)
      three_neighbours == {b \in BOOLEAN : IF b THEN l <= 3 /\ 3 <= h ELSE ~(l = 3 /\ h = 3)}
      cell == cd[matrix(n, col, row)]
  IN  cell = {0} => FALSE \in three_neighbours

stillLife(n, cd, col, row) ==
  LET neighbours == getNeighbours(n, col, row)
      l == lo(cd, neighbours)
      h == hi(cd, neighbours)
      two_neighbours == {b \in BOOLEAN : IF b THEN l <= 2 /\ 2 <= h ELSE ~(l = 2 /\ h = 2)}
      three_neighbours == {b \in BOOLEAN : IF b THEN l <= 3 /\ 3 <= h ELSE ~(l = 3 /\ h = 3)}
      still_live == {b \in BOOLEAN : IF b THEN TRUE \in two_neighbours \/ TRUE \in three_neighbours
                                         ELSE FALSE \in two_neighbours /\ FALSE \in three_neighbours}
      cell == cd[matrix(n, col, row)]
  IN  /\ cell = {1} => TRUE \in still_live
      /\ cell = {0} => FALSE \in three_neighbours

\* the 3*3 blocks, in the order the loops post them; block number blockNo
\* is summed into sliceOfMDP[blockNo], whose domain is 0..6
RECURSIVE postBlocks(_, _, _)
postBlocks(n, t, blocks) ==
  IF t = n * n THEN blocks
  ELSE LET col == 2 + (t \div n)
           row == 2 + (t % n)
       IN  postBlocks(n, t + 1,
                      IF col % 3 = 2 /\ row % 3 = 2
                      THEN Append(blocks, slice(n, col, col + 3, row, row + 3))
                      ELSE blocks)

Blocks(n) == postBlocks(n, 0, <<>>)

\* sliceOfMDP(*this, pow(ceil(os.size()/3.0),2), 0, 6)
\* the size of sliceOfMDP with the integer division size/3 in place of
\* ceil(size/3.0)
numSlices_floor(n) == (n \div 3) * (n \div 3)

numSlices(n) == ((n + 2) \div 3) * ((n + 2) \div 3)

\* sliceOfMDP declared with the domain 0..5
blockDensity_5(n, cd) ==
  \A b \in 1 .. Len(Blocks(n)) : b <= numSlices(n) /\ lo(cd, Blocks(n)[b]) <= 5

blockDensity(n, cd) ==
  \A b \in 1 .. Len(Blocks(n)) : b <= numSlices(n) /\ lo(cd, Blocks(n)[b]) <= 6

\* the cells of the outermost rows and columns of the pattern: each three
\* in a row sum to less than 3 (IRT_LE)
edgeSlices(n, col) ==
  {slice(n, 2, 3, col, col + 3),
   slice(n, col, col + 3, 2, 3),
   slice(n, board_size(n) - 3, board_size(n) - 2, col, col + 3),
   slice(n, col, col + 3, board_size(n) - 3, board_size(n) - 2)}

\* the edge constraints with IRT_LQ in place of IRT_LE
edgeTriples_lq(n, cd) ==
  \A col \in Interior(n) : \A S \in edgeSlices(n, col) : lo(cd, S) <= 3

edgeTriples(n, cd) ==
  \A col \in Interior(n) : \A S \in edgeSlices(n, col) : lo(cd, S) < 3

\* rel(sum(cells) == noOfLives), noOfLives in 0 .. size^2
\* noOfLives declared with the domain 1 .. size^2
sumIsNoOfLives_from1(n, cd) == lo(cd, CellIdx(n)) <= n * n /\ hi(cd, CellIdx(n)) >= 1

sumIsNoOfLives(n, cd) == lo(cd, CellIdx(n)) <= n * n

MaximumDensityStillLife(n, cd) ==
  /\ sumIsNoOfLives(n, cd)
  /\ borderEmpty(n, cd)
  /\ \A col \in Interior(n) : \A row \in Interior(n) : stillLife(n, cd, col, row)
  /\ blockDensity(n, cd)
  /\ edgeTriples(n, cd)

\* The values of noOfLives and sliceOfMDP in a space whose cells are assigned.
valNoOfLives(n, cd) == lo(cd, CellIdx(n))
valSliceOfMDP(n, cd) ==
  [b \in 1 .. numSlices(n) |-> IF b <= Len(Blocks(n)) THEN lo(cd, Blocks(n)[b]) ELSE 0]

(***************************************************************************)
(* MaximumDensityStillLife::constrain(s): strictly more lives and a        *)
(* strictly larger sum of the slices than the solution s.                  *)
(***************************************************************************)
\* constrain with >= in place of >
constrain_weak(n, cd, s) ==
  /\ hi(cd, CellIdx(n)) >= s.noOfLives
  /\ SeqSum([b \in 1 .. Len(Blocks(n)) |-> hi(cd, Blocks(n)[b])]) >= s.sumSlices

constrain(n, cd, s) ==
  /\ hi(cd, CellIdx(n)) > s.noOfLives
  /\ SeqSum([b \in 1 .. Len(Blocks(n)) |-> hi(cd, Blocks(n)[b])]) > s.sumSlices

(***************************************************************************)
(* The branchers: branch(cells, INT_VAR_NONE(), INT_VAL_MAX()) takes the   *)
(* first unassigned cell; alternative 0 assigns its maximum, alternative 1 *)
(* removes it.                                                             *)
(***************************************************************************)
unassigned(cd) == {i \in DOMAIN cd : Cardinality(cd[i]) > 1}

commitCell(cd, pos, alt) ==
  [cd EXCEPT ![pos] = IF alt = 0 THEN {max(@)} ELSE @ \ {max(@)}]

\* The space of the root: the constructor's variables after propagation.
root(n) ==
  [i \in CellIdx(n) |-> IF \E S \in borderSlices(n) : i \in S THEN {0} ELSE {0, 1}]

RECURSIVE replay(_, _)
replay(cd, tr) ==
  IF tr = <<>> THEN cd
  ELSE replay(commitCell(cd, tr[1].pos, tr[1].alt), Tail(tr))

\* Backtracking: the newest decision that has its second alternative left.
RECURSIVE undo(_)
undo(tr) ==
  IF tr = <<>> THEN <<>>
  ELSE IF tr[Len(tr)].alt = 0
       THEN [tr EXCEPT ![Len(tr)].alt = 1]
       ELSE undo(SubSeq(tr, 1, Len(tr) - 1))

live(n, cd, bst) ==
  /\ MaximumDensityStillLife(n, cd)
  /\ bst.has => constrain(n, cd, bst)

(***************************************************************************)
(* main: BAB<MaximumDensityStillLife> bab(mdsl); while (q = bab.next()) .. *)
(***************************************************************************)
InitLife ==
  /\ board \in 1 .. MaxSize
  /\ cells = root(board)
  /\ trail = <<>>
  /\ best = NoBest
  /\ q = NoSolution
  /\ lpc = "next"
  /\ x = [i \in Idx |-> Values]
  /\ neq = {}
  /\ failed = FALSE
  /\ w = Null
  /\ p = <<0, 1>>
  /\ start = 0
  /\ posted = 0
  /\ exc = "none"
  /\ heap = EmptyHeap
  /\ stack = <<>>
  /\ pc = "off"
  /\ c = NoChoice
  /\ a = 0
  /\ es = "ES_OK"
  /\ archive = <<>>
  /\ njunk = 0
  /\ ncalls = 0
  /\ args = NoArgs

\* bab.next(): the working space has a cell to branch on
LifeBranch ==
  /\ lpc = "next"
  /\ live(board, cells, best)
  /\ unassigned(cells) # {}
  /\ LET pos == SetMin(unassigned(cells))
     IN  /\ cells' = commitCell(cells, pos, 0)
         /\ trail' = Append(trail, [pos |-> pos, alt |-> 0])
  /\ UNCHANGED <<board, best, q, lpc>>
  /\ UNCHANGED ivars

\* the working space is failed: the next alternative, or none is left
LifeFail ==
  /\ lpc = "next"
  /\ ~live(board, cells, best)
  /\ IF undo(trail) = <<>>
     THEN /\ lpc' = "done"
          /\ UNCHANGED <<cells, trail>>
     ELSE /\ trail' = undo(trail)
          /\ cells' = replay(root(board), undo(trail))
          /\ UNCHANGED lpc
  /\ UNCHANGED q
  /\ UNCHANGED <<board, best>>
  /\ UNCHANGED ivars

\* the working space is a solution: it becomes the incumbent and is returned
LifeSolution ==
  /\ lpc = "next"
  /\ live(board, cells, best)
  /\ unassigned(cells) = {}
  /\ q' = [has |-> TRUE, no |-> q.no + 1,
           cells |-> [i \in CellIdx(board) |-> max(cells[i])],
           noOfLives |-> valNoOfLives(board, cells),
           sliceOfMDP |-> valSliceOfMDP(board, cells)]
  /\ best' = [has |-> TRUE, noOfLives |-> valNoOfLives(board, cells),
              sumSlices |-> SeqSum(valSliceOfMDP(board, cells))]
  /\ lpc' = "print"
  /\ UNCHANGED <<board, cells, trail>>
  /\ UNCHANGED ivars

\* q is printed and deleted (the model keeps its values, as the engine keeps
\* its incumbent); the search goes on behind the solution
LifePrint ==
  /\ lpc = "print"
  /\ IF undo(trail) = <<>>
     THEN /\ lpc' = "done"
          /\ UNCHANGED <<cells, trail>>
     ELSE /\ trail' = undo(trail)
          /\ cells' = replay(root(board), undo(trail))
          /\ lpc' = "next"
  /\ UNCHANGED <<board, best, q>>
  /\ UNCHANGED ivars

NextLife ==
  \/ LifeBranch
  \/ LifeFail
  \/ LifeSolution
  \/ LifePrint

SpecLife == InitLife /\ [][NextLife]_vars

(***************************************************************************)
(* Properties of the interval brancher, checked under Spec.                *)
(***************************************************************************)
W == heap[w].data
Top == stack[Len(stack)]

\* C1: for a Choice produced by choice() on a node, alternative 0 committed
\* on the node and alternative 1 committed on its clone leave x[pos] with
\* two disjoint domains whose union is the domain x[pos] had before.  The
\* state looked at is the one right after alternative 0 was committed, the
\* clone waiting on top of the stack.
C1_AlternativesPartition ==
  (pc = "committed" /\ a = 0 /\ stack # <<>>) =>
     LET before == Top.x[Top.c.pos]
         d0 == x[Top.c.pos]
         d1 == commit(Top.x, Top.c, Top.alt).x[Top.c.pos]
     IN  /\ Top.c = c
         /\ Top.alt = 1
         /\ d0 \cap d1 = {}
         /\ d0 \cup d1 = before

C1_Witness ==
  /\ pc = "committed" /\ a = 0 /\ stack # <<>>
  /\ x[c.pos] # {}
  /\ x[c.pos] # Top.x[c.pos]
  /\ Cardinality(Top.x[c.pos]) = MaxVal + 1

\* C3: choice() returns the largest value k of the domain of x[start] with
\* (x[start].min() + w[start]) - k >= p * w[start], position start and 2
\* alternatives.
C3_SplitIsLargest ==
  pc = "branch" =>
     LET good(k) == (min(x[start]) + W[start] - k) * p[2] >= p[1] * W[start]
     IN  /\ c.pos = start
         /\ c.alternatives = 2
         /\ c.split_point \in x[start]
         /\ good(c.split_point)
         /\ \A k \in x[start] : good(k) => k <= c.split_point

\* C4: when status() returns true the cursor start is the lowest index of
\* the whole array whose view is unassigned with (min + w) - max < p * w,
\* and when it returns false no view of the whole array is such.
C4_CursorScanIsFullScan ==
  LET sel(i) == /\ Cardinality(x[i]) > 1
                /\ (min(x[i]) + W[i] - max(x[i])) * p[2] < p[1] * W[i]
  IN  /\ pc = "choice" => ((\A i \in 0 .. (start - 1) : ~sel(i)) /\ sel(start))
      /\ (pc = "solution" /\ posted > 0) => \A i \in Idx : ~sel(i)

\* status() answered with the cursor past a view that was narrowed but not
\* assigned, on a node below the root
C4_Witness ==
  /\ pc = "choice"
  /\ start > 0
  /\ stack # <<>>
  /\ \E i \in 0 .. (start - 1) : x[i] # Values /\ Cardinality(x[i]) > 1

\* C7: the Description rebuilt from the archive of a Description d has the
\* pos, split_point and number of alternatives of d, and commits as d does.
C7_ArchiveRoundTrip ==
  [][(pc = "archived" /\ pc' = "replayed") =>
        /\ c'.pos = c.pos
        /\ c'.split_point = c.split_point
        /\ c'.alternatives = c.alternatives
        /\ \A alt \in 0 .. 1 : commit(x, c', alt) = commit(x, c, alt)]_vars

C7_Witness ==
  /\ pc = "replayed"
  /\ c.pos # c.split_point
  /\ c.split_point # c.alt
  /\ c.pos # c.alt

\* C8: choice() leaves the domains, w, p and start as they were, and a
\* second call on the same node returns the same Description.
C8_ChoiceIsRepeatable ==
  [][(pc = "branch" /\ pc' = "branch") =>
        /\ ncalls' = ncalls + 1
        /\ <<x, w, p, start, heap>>' = <<x, w, p, start, heap>>
        /\ c' = c]_vars

\* C9: commit(c, a) applied again to the node on which it has just returned
\* ES_OK returns ES_OK and leaves every domain as it was.
C9_CommitIdempotent ==
  [][(pc = "committed" /\ pc' = "recommitted") => (es' = "ES_OK" /\ x' = x)]_vars

C9_Witness ==
  /\ pc = "recommitted"
  /\ a = 1
  /\ Cardinality(x[c.pos]) > 1

\* C10: commit returns ES_FAILED exactly when the alternative empties
\* x[pos], that is alternative 0 with split_point below the minimum or
\* another alternative with split_point at or above the maximum, and ES_OK
\* otherwise; a failed node gives no further choice and no solution.
C10_FailedExactlyWhenEmpty ==
  [][/\ (pc = "commit" /\ pc' = "committed") =>
          LET below == a = 0 /\ c.split_point < min(x[c.pos])
              above == a # 0 /\ c.split_point >= max(x[c.pos])
          IN  /\ es' \in {"ES_OK", "ES_FAILED"}
              /\ (es' = "ES_FAILED") = (below \/ above)
              /\ (es' = "ES_FAILED") = (x'[c.pos] = {})
              /\ failed' = (es' = "ES_FAILED")
     /\ failed' => pc' \in {"post", "run", "committed", "backtrack", "done"}]_vars

C10_Witness ==
  /\ pc = "backtrack"
  /\ failed
  /\ es = "ES_FAILED"
  /\ a = 1
  /\ x[c.pos] = {}

\* C11: a call of interval() whose w has another size than x raises
\* ArgumentSizeMismatch and leaves the branchers and the memory of the space
\* as they were; a call on a failed space returns without posting a brancher.
C11_MismatchOrFailedPostsNothing ==
  [][pc = "post" /\ pc' # "post" =>
     /\ size(x) # size(args'.w) =>
          /\ exc' = "ArgumentSizeMismatch"
          /\ posted' = posted /\ heap' = heap /\ w' = w
     /\ size(x) = size(args'.w) /\ failed =>
          /\ exc' = "none"
          /\ posted' = posted /\ heap' = heap /\ w' = w]_vars

C11_Witness ==
  /\ exc = "ArgumentSizeMismatch"
  /\ size(args.w) = size(x) + 1
  /\ posted = 0
  /\ heap = EmptyHeap

\* C12: every clone on the stack has a live width array of its own, at an
\* address no other node uses; no step changes the domains, the cursor start
\* or the width array of a clone that stays on the stack, whatever status()
\* and commit() do to the working node; and making the clone leaves the
\* domains, start and w of the original as they were, the clone starting
\* with equal values.
C12_CloneOwnsStartAndW ==
  [][/\ \A k \in 1 .. Len(stack) :
          /\ heap[stack[k].w].live
          /\ stack[k].w # w
          /\ \A j \in 1 .. Len(stack) : j # k => stack[j].w # stack[k].w
          /\ k <= Len(stack') =>
               /\ stack'[k].x = stack[k].x
               /\ stack'[k].start = stack[k].start
               /\ stack'[k].w = stack[k].w
               /\ heap'[stack[k].w] = heap[stack[k].w]
     /\ Len(stack') > Len(stack) =>
          /\ x' = x /\ start' = start /\ w' = w
          /\ heap'[w] = heap[w]
          /\ stack'[Len(stack')].x = x
          /\ stack'[Len(stack')].start = start
          /\ stack'[Len(stack')].w # w
          /\ heap'[stack'[Len(stack')].w] = heap[w]]_vars

\* The working node has moved its cursor and narrowed a domain after the
\* clone was made.
C12_Witness ==
  /\ stack # <<>>
  /\ pc = "choice"
  /\ start # Top.start
  /\ x # Top.x
  /\ w # Top.w
  /\ W = heap[Top.w].data
  /\ \E i \in Idx : W[i] # 0

\* The percentage lies in 0..1 (the widths of the model are never negative).
ValidFraction == 0 <= p[1] /\ p[1] <= p[2]

\* C13: with 0 <= p <= 1 and w >= 0, every commit that succeeds removes at
\* least one value from the domain of x[pos], and the search reaches the end
\* with an empty stack.
C13_SearchTerminates ==
  /\ [][pc = "commit" /\ pc' = "committed" /\ es' = "ES_OK" /\ ValidFraction =>
          /\ x'[c.pos] \subseteq x[c.pos]
          /\ x'[c.pos] # x[c.pos]]_vars
  /\ (pc = "run" /\ ValidFraction) ~> (pc = "done" /\ stack = <<>>)

\* A search with a brancher and a percentage in 0..1 that has branched and
\* has come to its end.
C13_Witness ==
  /\ pc = "done"
  /\ stack = <<>>
  /\ posted = 1
  /\ ValidFraction
  /\ p[1] > 0
  /\ c # NoChoice
  /\ exc = "none"

\* The example: one view with domain 0..10, width 4 and percentage 0.5.
ExampleNode ==
  /\ x = [i \in 0 .. 0 |-> 0 .. 10]
  /\ heap[w].data[0] = 4
  /\ p = <<1, 2>>

\* C14 as stated: on the example choice() selects the split point 8.
C14_SplitPointIsEight ==
  ExampleNode /\ pc = "commit1" => c.split_point = 8

\* C14: on the example status() returns true and choice() selects the split
\* point 2, the largest k of the domain with (0 + 4) - k >= 0.5 * 4.
C14_SplitPointIsTwo ==
  /\ ExampleNode /\ pc = "status" => status(x, heap[w].data, p, start).ret
  /\ ExampleNode /\ pc = "commit1" =>
       /\ c.split_point = 2
       /\ c.pos = 0
       /\ c.alternatives = 2

C14_Witness ==
  /\ ExampleNode
  /\ pc = "commit1"
  /\ c.split_point = 2

\* w[start] >= p * w[start], in exact arithmetic (the denominator of p is
\* positive).
WidthCoversPart == heap[w].data[start] * p[2] >= p[1] * heap[w].data[start]

\* C16: when status() has returned true for x[start] and
\* w[start] >= p * w[start], some value of the domain passes the test of
\* choice(), so split_point is assigned before it is read; the split point k
\* that choice() returns satisfies min <= k < max, and lq(k) and gr(k) each
\* leave a domain that is not empty and is smaller than the one before.
C16_SplitInsideDomain ==
  pc \in {"choice1", "commit1"} /\ WidthCoversPart =>
    /\ choiceSat(x, heap[w].data, p, start) # {}
    /\ pc = "commit1" =>
         /\ c.pos = start
         /\ min(x[start]) <= c.split_point
         /\ c.split_point < max(x[start])
         /\ \A alt \in 0 .. 1 :
              LET r == commit(x, c, alt)
              IN  /\ r.es = "ES_OK"
                  /\ r.x[start] # {}
                  /\ r.x[start] \subseteq x[start]
                  /\ r.x[start] # x[start]

\* choice() has returned a split point for a domain with a hole, a positive
\* width and a positive percentage.
C16_Witness ==
  /\ pc = "commit1"
  /\ WidthCoversPart
  /\ heap[w].data[start] > 0
  /\ p[1] > 0
  /\ Cardinality(x[start]) >= 3
  /\ x[start] # min(x[start]) .. max(x[start])
  /\ c.split_point \in x[start]

(***************************************************************************)
(* Properties of MaximumDensityStillLife, checked under SpecLife.          *)
(***************************************************************************)
\* The cells around cell i that lie on the board.
around(n, i) ==
  LET col == i % board_size(n)
      row == i \div board_size(n)
  IN  {matrix(n, cc, rr) : cc \in {k \in (col - 1) .. (col + 1) : k >= 0 /\ k < board_size(n)},
                           rr \in {k \in (row - 1) .. (row + 1) : k >= 0 /\ k < board_size(n)}}
      \ {i}

liveAround(n, m, i) == Cardinality({j \in around(n, i) : m[j] = 1})

\* C2: of two solutions yielded one after the other, the later has strictly
\* more lives and a strictly larger sum of sliceOfMDP.
C2_SolutionsStrictlyImprove ==
  [][(lpc = "next" /\ lpc' = "print" /\ q.has) =>
        /\ q'.noOfLives > q.noOfLives
        /\ SeqSum(q'.sliceOfMDP) > SeqSum(q.sliceOfMDP)]_vars

C2_Witness ==
  /\ lpc = "print"
  /\ q.no = 2
  /\ q.noOfLives > 1

\* C5: no yielded solution has, anywhere on the (size+4) x (size+4) board, a
\* dead cell with exactly 3 live neighbours.
C5_NoBirth ==
  lpc = "print" =>
     \A i \in CellIdx(board) : q.cells[i] = 0 => liveAround(board, q.cells, i) # 3

\* a solution with a dead cell of the pattern next to live cells and a dead
\* border cell that has two live neighbours
C5_Witness ==
  /\ lpc = "print"
  /\ \E col \in Interior(board), row \in Interior(board) :
        /\ q.cells[matrix(board, col, row)] = 0
        /\ liveAround(board, q.cells, matrix(board, col, row)) > 3
  /\ \E i \in CellIdx(board) :
        /\ \E S \in borderSlices(board) : i \in S
        /\ liveAround(board, q.cells, i) = 2

\* C6: for size 4 the assignment with every cell dead, noOfLives 0 and every
\* sliceOfMDP 0 satisfies all the constraints the constructor posts.
C6_AllDeadFeasible ==
  board = 4 =>
     LET dead == [i \in CellIdx(board) |-> {0}]
     IN  /\ unassigned(dead) = {}
         /\ MaximumDensityStillLife(board, dead)
         /\ valNoOfLives(board, dead) = 0
         /\ \A b \in 1 .. numSlices(board) : valSliceOfMDP(board, dead)[b] = 0

\* a node of the search on the 8 x 8 board on which every cell decided so
\* far is dead and no constraint of the constructor is violated
C6_Witness ==
  /\ board = 4
  /\ board_size(board) = 8
  /\ lpc = "next"
  /\ trail # <<>>
  /\ \A k \in 1 .. Len(trail) : trail[k].alt = 1
  /\ MaximumDensityStillLife(board, cells)

\* One step of the Game of Life on the board; the cells beyond the board are
\* dead.
lifeStep(n, m) ==
  [i \in CellIdx(n) |->
     IF \/ m[i] = 1 /\ liveAround(n, m, i) \in {2, 3}
        \/ m[i] = 0 /\ liveAround(n, m, i) = 3
     THEN 1 ELSE 0]

\* C17: in every yielded solution every live cell has exactly 2 or exactly 3
\* live neighbours, every cell of the border of width two is dead, and one
\* step of the Game of Life leaves the board as it is.
C17_SolutionIsStillLife ==
  lpc = "print" =>
     /\ \A i \in CellIdx(board) :
          q.cells[i] = 1 => liveAround(board, q.cells, i) \in {2, 3}
     /\ \A S \in borderSlices(board) : \A i \in S : q.cells[i] = 0
     /\ \A i \in CellIdx(board) :
          q.cells[i] = 1 =>
            /\ i % board_size(board) \in Interior(board)
            /\ i \div board_size(board) \in Interior(board)
     /\ lifeStep(board, q.cells) = q.cells

\* a solution with a live cell that has 2 live neighbours and one that has 3
C17_Witness ==
  /\ lpc = "print"
  /\ \E i \in CellIdx(board) : q.cells[i] = 1 /\ liveAround(board, q.cells, i) = 2
  /\ \E i \in CellIdx(board) : q.cells[i] = 1 /\ liveAround(board, q.cells, i) = 3

\* ceil(n/3): the least k with 3k >= n.
CeilThird(n) == CHOOSE k \in 0 .. n : 3 * k >= n /\ 3 * (k - 1) < n

\* C18: the constructor posts exactly ceil(n/3)^2 block constraints, as many
\* as sliceOfMDP has elements; each block is a 3 x 3 square inside the board,
\* the blocks are pairwise disjoint and cover every cell of the pattern; so
\* in every solution the sum of sliceOfMDP is noOfLives, and on every space
\* of the search the two relations of constrain() hold or fail together.
C18_BlocksPartitionPattern ==
  LET n == board
      B == Blocks(n)
      sumHi == SeqSum([b \in 1 .. Len(B) |-> hi(cells, B[b])])
  IN  /\ Len(B) = CeilThird(n) * CeilThird(n)
      /\ Len(B) = numSlices(n)
      /\ \A b \in 1 .. Len(B) :
           /\ Cardinality(B[b]) = 9
           /\ \E col \in 0 .. (board_size(n) - 3), row \in 0 .. (board_size(n) - 3) :
                B[b] = slice(n, col, col + 3, row, row + 3)
           /\ \A b2 \in 1 .. Len(B) : b2 # b => B[b] \cap B[b2] = {}
      /\ \A col \in Interior(n), row \in Interior(n) :
           \E b \in 1 .. Len(B) : matrix(n, col, row) \in B[b]
      /\ lpc = "print" => SeqSum(q.sliceOfMDP) = q.noOfLives
      /\ best.has =>
           /\ best.sumSlices = best.noOfLives
           /\ hi(cells, CellIdx(n)) > best.noOfLives <=> sumHi > best.sumSlices

\* a solution on a board whose size is no multiple of 3: four blocks, lives
\* in more than one of them
C18_Witness ==
  /\ lpc = "print"
  /\ board = 4
  /\ Len(q.sliceOfMDP) = 4
  /\ Cardinality({b \in 1 .. 4 : q.sliceOfMDP[b] > 0}) >= 2
  /\ SeqSum(q.sliceOfMDP) = q.noOfLives

(***************************************************************************)
(* All still lifes of the Game of Life confined to the n x n pattern,      *)
(* found from the rule alone, row by row.  A pattern is the sequence of    *)
(* its rows 2 .. n+1, each the set of the columns of its live cells.       *)
(***************************************************************************)
nearby(S, col) == Cardinality({cc \in S : cc >= col - 1 /\ cc <= col + 1})

\* Every cell of the row mid, between the rows up and dn, keeps its state.
rowStable(n, up, mid, dn) ==
  \A col \in 1 .. (n + 2) :
     LET cnt == nearby(up, col) + nearby(dn, col) + nearby(mid \ {col}, col)
     IN  IF col \in mid THEN cnt \in {2, 3} ELSE cnt # 3

RECURSIVE stillLives(_, _)
stillLives(n, rows) ==
  LET k == Len(rows)
      up == IF k >= 2 THEN rows[k - 1] ELSE {}
      mid == IF k >= 1 THEN rows[k] ELSE {}
  IN  IF k = n
      THEN IF rowStable(n, up, mid, {}) /\ rowStable(n, mid, {}, {}) THEN {rows} ELSE {}
      ELSE UNION {stillLives(n, Append(rows, S)) :
                    S \in {T \in SUBSET Interior(n) : rowStable(n, up, mid, T)}}

boardOf(n, rows) ==
  [i \in CellIdx(n) |->
     LET col == i % board_size(n)
         row == i \div board_size(n)
     IN  IF row \in Interior(n) /\ col \in rows[row - 1] THEN 1 ELSE 0]

livesOf(rows) == SeqSum([k \in 1 .. Len(rows) |-> Cardinality(rows[k])])

\* C15: when the search has run to its end, the solution yielded last is a
\* still life with the largest number of live cells among all still lifes
\* confined to the n x n pattern, and every such still life satisfies all
\* the constraints of the constructor, the 3 x 3 blocks of at most 6 lives
\* and the edge triples below 3 included.
C15_LastSolutionIsMaximum ==
  lpc = "done" =>
     LET all == stillLives(board, <<>>)
     IN  /\ q.has
         /\ \E b \in all : boardOf(board, b) = q.cells
         /\ \A b \in all : livesOf(b) <= q.noOfLives
         /\ \A b \in all :
              LET cd == [i \in CellIdx(board) |-> {boardOf(board, b)[i]}]
              IN  MaximumDensityStillLife(board, cd)

\* the search on the 4 x 4 pattern has come to its end after several
\* solutions, the last with 8 lives
C15_Witness ==
  /\ lpc = "done"
  /\ board = 4
  /\ q.no >= 2
  /\ q.noOfLives = 8

====
